---- MODULE Spec2Model ----
(***************************************************************************)
(* Model of src/extract.py: the Supabase -> CSV synchronisation script.    *)
(*                                                                         *)
(* Python values are tagged records [t |-> <type>, ...]:                   *)
(*   str    [t |-> "str",   v |-> <<c1, ..., cn>>]  one token per character*)
(*          (an ASCII character is itself, any other its code point, as in *)
(*          "U+00B2")                                                      *)
(*   int    [t |-> "int",   v |-> n]                                       *)
(*   float  [t |-> "float", v |-> n]     (an int held by a float64 column) *)
(*   bool   [t |-> "bool",  v |-> TRUE/FALSE]                              *)
(*   None   [t |-> "None"]        NaN  [t |-> "NaN"]                       *)
(* A raw row (a dict returned by the backend) is a record over Campos      *)
(* whose absent keys hold Ausente.                                         *)
(***************************************************************************)
EXTENDS Integers, Sequences, FiniteSets, TLC

VARIABLES
    \* ---- main() / carregar_dados_supabase() ----
    pc,            \* position of main()
    config_ok,     \* SUPABASE_URL and SUPABASE_KEY are both set
    offset,        \* local of carregar_dados_supabase
    all_data,      \* local of carregar_dados_supabase
    total_loaded,  \* local of carregar_dados_supabase
    seen_keys,     \* local of carregar_dados_supabase
    ordenado,      \* local of carregar_dados_supabase (last iteration)
    requisicoes,   \* history: the `inicio` of every range() request issued
    respostas,     \* history: the response to every request, in order
    df,            \* what carregar_dados_supabase returned to main()
    df_enriquecido,\* what enriquecer_dados returned to main()
    csv,           \* content of dados_supabase.csv
    exit_status,   \* process exit status
    mensagem,      \* the error message main() printed, if any
    \* ---- the key parsers, applied to one key ----
    chave,
    info_vol,
    nf_cnpj,
    cnpj_fmt

vars == <<pc, config_ok, offset, all_data, total_loaded, seen_keys, ordenado,
          requisicoes, respostas, df, df_enriquecido, csv, exit_status,
          mensagem, chave, info_vol, nf_cnpj, cnpj_fmt>>

varsMain == <<pc, config_ok, offset, all_data, total_loaded, seen_keys, ordenado,
              requisicoes, respostas, df, df_enriquecido, csv, exit_status,
              mensagem>>

varsChave == <<chave, info_vol, nf_cnpj, cnpj_fmt>>

----------------------------------------------------------------------------
(* Python values *)

PyStr(s) == [t |-> "str", v |-> s]

PyInt(n) == [t |-> "int", v |-> n]

PyFloat(n) == [t |-> "float", v |-> n]

PyBool(b) == [t |-> "bool", v |-> b]

None == [t |-> "None"]

NaN == [t |-> "NaN"]

\* a dict key that is not in the dict
Ausente == [t |-> "ausente"]

\* the value of a variable that has not been assigned yet
Pendente == [t |-> "pendente"]

\* an exception propagating out of a call
Erro(tipo) == [t |-> "raise", tipo |-> tipo]

\* Python truthiness, bool(x): NaN is a non-zero float, hence true
bool(x) ==
    CASE x.t = "bool"  -> x.v
      [] x.t = "int"   -> x.v # 0
      [] x.t = "float" -> x.v # 0
      [] x.t = "str"   -> Len(x.v) > 0
      [] x.t = "NaN"   -> TRUE
      [] x.t = "None"  -> FALSE

----------------------------------------------------------------------------
(* Python strings: sequences of one-character tokens *)

\* the decimal digits (Unicode category Nd, Unicode 14.0): one row per
\* script, each row the digits of values 0 to 9 in order; the first row is
\* ASCII '0'..'9'
DigitosDecimais ==
    <<<<"0", "1", "2", "3", "4", "5", "6", "7", "8", "9">>,
     <<"U+0660", "U+0661", "U+0662", "U+0663", "U+0664",
      "U+0665", "U+0666", "U+0667", "U+0668", "U+0669">>,
     <<"U+06F0", "U+06F1", "U+06F2", "U+06F3", "U+06F4",
      "U+06F5", "U+06F6", "U+06F7", "U+06F8", "U+06F9">>,
     <<"U+07C0", "U+07C1", "U+07C2", "U+07C3", "U+07C4",
      "U+07C5", "U+07C6", "U+07C7", "U+07C8", "U+07C9">>,
     <<"U+0966", "U+0967", "U+0968", "U+0969", "U+096A",
      "U+096B", "U+096C", "U+096D", "U+096E", "U+096F">>,
     <<"U+09E6", "U+09E7", "U+09E8", "U+09E9", "U+09EA",
      "U+09EB", "U+09EC", "U+09ED", "U+09EE", "U+09EF">>,
     <<"U+0A66", "U+0A67", "U+0A68", "U+0A69", "U+0A6A",
      "U+0A6B", "U+0A6C", "U+0A6D", "U+0A6E", "U+0A6F">>,
     <<"U+0AE6", "U+0AE7", "U+0AE8", "U+0AE9", "U+0AEA",
      "U+0AEB", "U+0AEC", "U+0AED", "U+0AEE", "U+0AEF">>,
     <<"U+0B66", "U+0B67", "U+0B68", "U+0B69", "U+0B6A",
      "U+0B6B", "U+0B6C", "U+0B6D", "U+0B6E", "U+0B6F">>,
     <<"U+0BE6", "U+0BE7", "U+0BE8", "U+0BE9", "U+0BEA",
      "U+0BEB", "U+0BEC", "U+0BED", "U+0BEE", "U+0BEF">>,
     <<"U+0C66", "U+0C67", "U+0C68", "U+0C69", "U+0C6A",
      "U+0C6B", "U+0C6C", "U+0C6D", "U+0C6E", "U+0C6F">>,
     <<"U+0CE6", "U+0CE7", "U+0CE8", "U+0CE9", "U+0CEA",
      "U+0CEB", "U+0CEC", "U+0CED", "U+0CEE", "U+0CEF">>,
     <<"U+0D66", "U+0D67", "U+0D68", "U+0D69", "U+0D6A",
      "U+0D6B", "U+0D6C", "U+0D6D", "U+0D6E", "U+0D6F">>,
     <<"U+0DE6", "U+0DE7", "U+0DE8", "U+0DE9", "U+0DEA",
      "U+0DEB", "U+0DEC", "U+0DED", "U+0DEE", "U+0DEF">>,
     <<"U+0E50", "U+0E51", "U+0E52", "U+0E53", "U+0E54",
      "U+0E55", "U+0E56", "U+0E57", "U+0E58", "U+0E59">>,
     <<"U+0ED0", "U+0ED1", "U+0ED2", "U+0ED3", "U+0ED4",
      "U+0ED5", "U+0ED6", "U+0ED7", "U+0ED8", "U+0ED9">>,
     <<"U+0F20", "U+0F21", "U+0F22", "U+0F23", "U+0F24",
      "U+0F25", "U+0F26", "U+0F27", "U+0F28", "U+0F29">>,
     <<"U+1040", "U+1041", "U+1042", "U+1043", "U+1044",
      "U+1045", "U+1046", "U+1047", "U+1048", "U+1049">>,
     <<"U+1090", "U+1091", "U+1092", "U+1093", "U+1094",
      "U+1095", "U+1096", "U+1097", "U+1098", "U+1099">>,
     <<"U+17E0", "U+17E1", "U+17E2", "U+17E3", "U+17E4",
      "U+17E5", "U+17E6", "U+17E7", "U+17E8", "U+17E9">>,
     <<"U+1810", "U+1811", "U+1812", "U+1813", "U+1814",
      "U+1815", "U+1816", "U+1817", "U+1818", "U+1819">>,
     <<"U+1946", "U+1947", "U+1948", "U+1949", "U+194A",
      "U+194B", "U+194C", "U+194D", "U+194E", "U+194F">>,
     <<"U+19D0", "U+19D1", "U+19D2", "U+19D3", "U+19D4",
      "U+19D5", "U+19D6", "U+19D7", "U+19D8", "U+19D9">>,
     <<"U+1A80", "U+1A81", "U+1A82", "U+1A83", "U+1A84",
      "U+1A85", "U+1A86", "U+1A87", "U+1A88", "U+1A89">>,
     <<"U+1A90", "U+1A91", "U+1A92", "U+1A93", "U+1A94",
      "U+1A95", "U+1A96", "U+1A97", "U+1A98", "U+1A99">>,
     <<"U+1B50", "U+1B51", "U+1B52", "U+1B53", "U+1B54",
      "U+1B55", "U+1B56", "U+1B57", "U+1B58", "U+1B59">>,
     <<"U+1BB0", "U+1BB1", "U+1BB2", "U+1BB3", "U+1BB4",
      "U+1BB5", "U+1BB6", "U+1BB7", "U+1BB8", "U+1BB9">>,
     <<"U+1C40", "U+1C41", "U+1C42", "U+1C43", "U+1C44",
      "U+1C45", "U+1C46", "U+1C47", "U+1C48", "U+1C49">>,
     <<"U+1C50", "U+1C51", "U+1C52", "U+1C53", "U+1C54",
      "U+1C55", "U+1C56", "U+1C57", "U+1C58", "U+1C59">>,
     <<"U+A620", "U+A621", "U+A622", "U+A623", "U+A624",
      "U+A625", "U+A626", "U+A627", "U+A628", "U+A629">>,
     <<"U+A8D0", "U+A8D1", "U+A8D2", "U+A8D3", "U+A8D4",
      "U+A8D5", "U+A8D6", "U+A8D7", "U+A8D8", "U+A8D9">>,
     <<"U+A900", "U+A901", "U+A902", "U+A903", "U+A904",
      "U+A905", "U+A906", "U+A907", "U+A908", "U+A909">>,
     <<"U+A9D0", "U+A9D1", "U+A9D2", "U+A9D3", "U+A9D4",
      "U+A9D5", "U+A9D6", "U+A9D7", "U+A9D8", "U+A9D9">>,
     <<"U+A9F0", "U+A9F1", "U+A9F2", "U+A9F3", "U+A9F4",
      "U+A9F5", "U+A9F6", "U+A9F7", "U+A9F8", "U+A9F9">>,
     <<"U+AA50", "U+AA51", "U+AA52", "U+AA53", "U+AA54",
      "U+AA55", "U+AA56", "U+AA57", "U+AA58", "U+AA59">>,
     <<"U+ABF0", "U+ABF1", "U+ABF2", "U+ABF3", "U+ABF4",
      "U+ABF5", "U+ABF6", "U+ABF7", "U+ABF8", "U+ABF9">>,
     <<"U+FF10", "U+FF11", "U+FF12", "U+FF13", "U+FF14",
      "U+FF15", "U+FF16", "U+FF17", "U+FF18", "U+FF19">>,
     <<"U+104A0", "U+104A1", "U+104A2", "U+104A3", "U+104A4",
      "U+104A5", "U+104A6", "U+104A7", "U+104A8", "U+104A9">>,
     <<"U+10D30", "U+10D31", "U+10D32", "U+10D33", "U+10D34",
      "U+10D35", "U+10D36", "U+10D37", "U+10D38", "U+10D39">>,
     <<"U+11066", "U+11067", "U+11068", "U+11069", "U+1106A",
      "U+1106B", "U+1106C", "U+1106D", "U+1106E", "U+1106F">>,
     <<"U+110F0", "U+110F1", "U+110F2", "U+110F3", "U+110F4",
      "U+110F5", "U+110F6", "U+110F7", "U+110F8", "U+110F9">>,
     <<"U+11136", "U+11137", "U+11138", "U+11139", "U+1113A",
      "U+1113B", "U+1113C", "U+1113D", "U+1113E", "U+1113F">>,
     <<"U+111D0", "U+111D1", "U+111D2", "U+111D3", "U+111D4",
      "U+111D5", "U+111D6", "U+111D7", "U+111D8", "U+111D9">>,
     <<"U+112F0", "U+112F1", "U+112F2", "U+112F3", "U+112F4",
      "U+112F5", "U+112F6", "U+112F7", "U+112F8", "U+112F9">>,
     <<"U+11450", "U+11451", "U+11452", "U+11453", "U+11454",
      "U+11455", "U+11456", "U+11457", "U+11458", "U+11459">>,
     <<"U+114D0", "U+114D1", "U+114D2", "U+114D3", "U+114D4",
      "U+114D5", "U+114D6", "U+114D7", "U+114D8", "U+114D9">>,
     <<"U+11650", "U+11651", "U+11652", "U+11653", "U+11654",
      "U+11655", "U+11656", "U+11657", "U+11658", "U+11659">>,
     <<"U+116C0", "U+116C1", "U+116C2", "U+116C3", "U+116C4",
      "U+116C5", "U+116C6", "U+116C7", "U+116C8", "U+116C9">>,
     <<"U+11730", "U+11731", "U+11732", "U+11733", "U+11734",
      "U+11735", "U+11736", "U+11737", "U+11738", "U+11739">>,
     <<"U+118E0", "U+118E1", "U+118E2", "U+118E3", "U+118E4",
      "U+118E5", "U+118E6", "U+118E7", "U+118E8", "U+118E9">>,
     <<"U+11950", "U+11951", "U+11952", "U+11953", "U+11954",
      "U+11955", "U+11956", "U+11957", "U+11958", "U+11959">>,
     <<"U+11C50", "U+11C51", "U+11C52", "U+11C53", "U+11C54",
      "U+11C55", "U+11C56", "U+11C57", "U+11C58", "U+11C59">>,
     <<"U+11D50", "U+11D51", "U+11D52", "U+11D53", "U+11D54",
      "U+11D55", "U+11D56", "U+11D57", "U+11D58", "U+11D59">>,
     <<"U+11DA0", "U+11DA1", "U+11DA2", "U+11DA3", "U+11DA4",
      "U+11DA5", "U+11DA6", "U+11DA7", "U+11DA8", "U+11DA9">>,
     <<"U+16A60", "U+16A61", "U+16A62", "U+16A63", "U+16A64",
      "U+16A65", "U+16A66", "U+16A67", "U+16A68", "U+16A69">>,
     <<"U+16AC0", "U+16AC1", "U+16AC2", "U+16AC3", "U+16AC4",
      "U+16AC5", "U+16AC6", "U+16AC7", "U+16AC8", "U+16AC9">>,
     <<"U+16B50", "U+16B51", "U+16B52", "U+16B53", "U+16B54",
      "U+16B55", "U+16B56", "U+16B57", "U+16B58", "U+16B59">>,
     <<"U+1D7CE", "U+1D7CF", "U+1D7D0", "U+1D7D1", "U+1D7D2",
      "U+1D7D3", "U+1D7D4", "U+1D7D5", "U+1D7D6", "U+1D7D7">>,
     <<"U+1D7D8", "U+1D7D9", "U+1D7DA", "U+1D7DB", "U+1D7DC",
      "U+1D7DD", "U+1D7DE", "U+1D7DF", "U+1D7E0", "U+1D7E1">>,
     <<"U+1D7E2", "U+1D7E3", "U+1D7E4", "U+1D7E5", "U+1D7E6",
      "U+1D7E7", "U+1D7E8", "U+1D7E9", "U+1D7EA", "U+1D7EB">>,
     <<"U+1D7EC", "U+1D7ED", "U+1D7EE", "U+1D7EF", "U+1D7F0",
      "U+1D7F1", "U+1D7F2", "U+1D7F3", "U+1D7F4", "U+1D7F5">>,
     <<"U+1D7F6", "U+1D7F7", "U+1D7F8", "U+1D7F9", "U+1D7FA",
      "U+1D7FB", "U+1D7FC", "U+1D7FD", "U+1D7FE", "U+1D7FF">>,
     <<"U+1E140", "U+1E141", "U+1E142", "U+1E143", "U+1E144",
      "U+1E145", "U+1E146", "U+1E147", "U+1E148", "U+1E149">>,
     <<"U+1E2F0", "U+1E2F1", "U+1E2F2", "U+1E2F3", "U+1E2F4",
      "U+1E2F5", "U+1E2F6", "U+1E2F7", "U+1E2F8", "U+1E2F9">>,
     <<"U+1E950", "U+1E951", "U+1E952", "U+1E953", "U+1E954",
      "U+1E955", "U+1E956", "U+1E957", "U+1E958", "U+1E959">>,
     <<"U+1FBF0", "U+1FBF1", "U+1FBF2", "U+1FBF3", "U+1FBF4",
      "U+1FBF5", "U+1FBF6", "U+1FBF7", "U+1FBF8", "U+1FBF9">>>>

\* the digits that are not decimal (Numeric_Type=Digit: superscripts,
\* subscripts, circled and parenthesised digits and the like)
DigitosNaoDecimais ==
    {"U+00B2", "U+00B3", "U+00B9", "U+1369", "U+136A", "U+136B",
     "U+136C", "U+136D", "U+136E", "U+136F", "U+1370", "U+1371",
     "U+19DA", "U+2070", "U+2074", "U+2075", "U+2076", "U+2077",
     "U+2078", "U+2079", "U+2080", "U+2081", "U+2082", "U+2083",
     "U+2084", "U+2085", "U+2086", "U+2087", "U+2088", "U+2089",
     "U+2460", "U+2461", "U+2462", "U+2463", "U+2464", "U+2465",
     "U+2466", "U+2467", "U+2468", "U+2474", "U+2475", "U+2476",
     "U+2477", "U+2478", "U+2479", "U+247A", "U+247B", "U+247C",
     "U+2488", "U+2489", "U+248A", "U+248B", "U+248C", "U+248D",
     "U+248E", "U+248F", "U+2490", "U+24EA", "U+24F5", "U+24F6",
     "U+24F7", "U+24F8", "U+24F9", "U+24FA", "U+24FB", "U+24FC",
     "U+24FD", "U+24FF", "U+2776", "U+2777", "U+2778", "U+2779",
     "U+277A", "U+277B", "U+277C", "U+277D", "U+277E", "U+2780",
     "U+2781", "U+2782", "U+2783", "U+2784", "U+2785", "U+2786",
     "U+2787", "U+2788", "U+278A", "U+278B", "U+278C", "U+278D",
     "U+278E", "U+278F", "U+2790", "U+2791", "U+2792", "U+10A40",
     "U+10A41", "U+10A42", "U+10A43", "U+10E60", "U+10E61", "U+10E62",
     "U+10E63", "U+10E64", "U+10E65", "U+10E66", "U+10E67", "U+10E68",
     "U+11052", "U+11053", "U+11054", "U+11055", "U+11056", "U+11057",
     "U+11058", "U+11059", "U+1105A", "U+1F100", "U+1F101", "U+1F102",
     "U+1F103", "U+1F104", "U+1F105", "U+1F106", "U+1F107", "U+1F108",
     "U+1F109", "U+1F10A"}

\* the ASCII decimal digits
Decimais == DigitosDecimais[1]

ConjuntoDecimais ==
    {DigitosDecimais[r][i] : r \in 1..Len(DigitosDecimais), i \in 1..10}

\* the characters int() reads as a decimal digit
EhDecimal(c) == c \in ConjuntoDecimais

\* the value int() gives a decimal digit
ValorDecimal(c) ==
    (CHOOSE i \in 1..10 : \E r \in 1..Len(DigitosDecimais) : DigitosDecimais[r][i] = c) - 1

\* str.isdigit() of one character: the decimal digits and the digits that
\* are not decimal
EhDigito(c) == EhDecimal(c) \/ c \in DigitosNaoDecimais

\* str.isdigit(): every character a digit, and false for the empty string
isdigit(s) == Len(s) > 0 /\ \A i \in 1..Len(s) : EhDigito(s[i])

\* the number a string of decimal digits writes
RECURSIVE ValorEscrito(_)
ValorEscrito(s) ==
    IF Len(s) = 0 THEN 0
    ELSE 10 * ValorEscrito(SubSeq(s, 1, Len(s) - 1)) + ValorDecimal(s[Len(s)])

\* int(s) for a string without sign, blank or underscore: the integer, or
\* ValueError for the empty string and for a character that is no decimal
\* digit
int(s) ==
    IF Len(s) = 0 \/ \E i \in 1..Len(s) : ~EhDecimal(s[i])
    THEN Erro("ValueError")
    ELSE PyInt(ValorEscrito(s))

\* a slice index as Python normalises it for a sequence of length n
Indice(i, n) ==
    IF i < 0 THEN (IF i + n < 0 THEN 0 ELSE i + n)
    ELSE (IF i > n THEN n ELSE i)

\* s[a:b]
Fatia(s, a, b) == SubSeq(s, Indice(a, Len(s)) + 1, Indice(b, Len(s)))

\* s[a:]
FatiaDe(s, a) == SubSeq(s, Indice(a, Len(s)) + 1, Len(s))

\* c repeated n times
Rep(c, n) == [i \in 1..n |-> c]

----------------------------------------------------------------------------
(* The key parsers *)

\* the tuple (base, vol_atual, total_vol) built at lines 29-32: the
\* ValueError of the first int() that raises leaves the function
tupla_info_volume(k, sufixo) ==
    LET vol_atual == int(Fatia(sufixo, 0, 3))
        total_vol == int(FatiaDe(sufixo, 3))
    IN  IF vol_atual.t = "raise" THEN vol_atual
        ELSE IF total_vol.t = "raise" THEN total_vol
        ELSE [t |-> "tuple",
              base |-> Fatia(k, 0, -6),
              vol_atual |-> vol_atual.v,
              total_vol |-> total_vol.v]

\* extrair_info_volume(chave): None, the tuple (base, vol_atual, total_vol),
\* or the ValueError of int() on a suffix that isdigit() let through
extrair_info_volume(k) ==
    IF Len(k) < 6 THEN None
    ELSE LET sufixo == FatiaDe(k, -6) IN
         IF ~isdigit(sufixo) THEN None
         ELSE tupla_info_volume(k, sufixo)

\* extrair_nf_cnpj(chave): the pair (nf, cnpj), each a str or None
extrair_nf_cnpj(k) ==
    IF Len(k) < 26 THEN [nf |-> None, cnpj |-> None]
    ELSE LET nf == Fatia(k, 0, 9)
             cnpj == Fatia(k, 12, 26)
         IN  IF ~isdigit(nf) \/ ~isdigit(cnpj)
             THEN [nf |-> None, cnpj |-> None]
             ELSE [nf |-> PyStr(nf), cnpj |-> PyStr(cnpj)]

\* formatar_cnpj(cnpj) on a str
formatar_cnpj(c) ==
    IF Len(c) = 0 \/ Len(c) # 14 THEN c
    ELSE Fatia(c, 0, 2) \o <<".">> \o Fatia(c, 2, 5) \o <<".">> \o Fatia(c, 5, 8)
         \o <<"/">> \o Fatia(c, 8, 12) \o <<"-">> \o FatiaDe(c, 12)

----------------------------------------------------------------------------
(* pandas: DataFrame(list of dicts), DataFrame.empty, Series.get *)

\* the columns of the backend table, in the order the rows carry them
Campos == <<"OF", "CHAVE_NF", "INCLUSAO_MANUAL", "bipado_em", "removido_em">>

\* the columns of the enriched records, in the order the dict is built
ColunasEnriquecidas ==
    <<"OF", "CHAVE_NF", "NF", "CNPJ", "CNPJ_Formatado", "Volume_Atual",
      "Total_Volumes", "Base_NF", "Bipado_em", "Removido_em", "Inclusao_Manual">>

\* the cell of row i in column c before type inference: a key missing from
\* the dict becomes NaN
CelulaBruta(linhas, c, i) == IF linhas[i][c] = Ausente THEN NaN ELSE linhas[i][c]

\* type inference of a column: int cells together with None or NaN cells make
\* a float64 column (None becomes NaN); None alone, or None with str or bool
\* cells, stays an object column
ColunaFloat(linhas, c) ==
    /\ \A i \in 1..Len(linhas) : CelulaBruta(linhas, c, i).t \in {"int", "NaN", "None"}
    /\ \E i \in 1..Len(linhas) : CelulaBruta(linhas, c, i).t \in {"int", "NaN"}
    /\ \E i \in 1..Len(linhas) : CelulaBruta(linhas, c, i).t \in {"None", "NaN"}

Celula(linhas, c, i) ==
    LET x == CelulaBruta(linhas, c, i) IN
    IF ColunaFloat(linhas, c)
    THEN (IF x.t = "int" THEN PyFloat(x.v) ELSE NaN)
    ELSE x

ColunaExiste(linhas, c) == \E i \in 1..Len(linhas) : linhas[i][c] # Ausente

\* pd.DataFrame() : no rows, no columns
DataFrameVazio == [t |-> "DataFrame", colunas |-> <<>>, linhas |-> <<>>]

\* pd.DataFrame(linhas) for a non-empty list of dicts over the keys `ordem`
DataFrame(linhas, ordem) ==
    [t |-> "DataFrame",
     colunas |-> SelectSeq(ordem, LAMBDA c : ColunaExiste(linhas, c)),
     linhas |-> [i \in 1..Len(linhas) |->
                    [c \in DOMAIN linhas[i] |->
                        IF ColunaExiste(linhas, c) THEN Celula(linhas, c, i)
                        ELSE Ausente]]]

\* df.empty never true (the test left out)
empty_nunca(d) == FALSE

\* df.empty
empty(d) == Len(d.linhas) = 0 \/ Len(d.colunas) = 0

\* row.get(c, padrao) for row i of d
get(d, i, c, padrao) ==
    IF \E j \in 1..Len(d.colunas) : d.colunas[j] = c THEN d.linhas[i][c] ELSE padrao

----------------------------------------------------------------------------
(* enriquecer_dados *)

NA == PyStr(<<"N", "/", "A">>)

\* manual-inclusion flag of a row: bool(row.get("INCLUSAO_MANUAL", False))
inclusao_manual(d, i) == bool(get(d, i, "INCLUSAO_MANUAL", PyBool(FALSE)))

\* chave = row.get("CHAVE_NF", "") for row i
chave_da_linha(d, i) == get(d, i, "CHAVE_NF", PyStr(<<>>))

\* len(x) raises TypeError unless x is a string (None and NaN have no len())
len_levanta(x) == x.t # "str"

\* the exception the body of the loop raises for row i, None when it raises
\* none: TypeError of len() at line 185, ValueError of extrair_info_volume
\* at line 193
erro_da_linha(d, i) ==
    LET x == chave_da_linha(d, i) IN
    IF len_levanta(x) THEN Erro("TypeError")
    ELSE IF Len(x.v) = 48 /\ extrair_info_volume(x.v).t = "raise"
         THEN extrair_info_volume(x.v)
         ELSE None

\* the dict the body of the loop appends to dados_enriquecidos for row i,
\* whose body raises nothing
registro_enriquecido(d, i) ==
    LET k == chave_da_linha(d, i).v
        par == IF Len(k) = 27 THEN [nf |-> None, cnpj |-> None]
               ELSE IF Len(k) = 48 THEN extrair_nf_cnpj(k)
               ELSE [nf |-> None, cnpj |-> None]
        iv == IF Len(k) = 27 THEN None
              ELSE IF Len(k) = 48 THEN extrair_info_volume(k)
              ELSE None
    IN  [OF |-> get(d, i, "OF", None),
         CHAVE_NF |-> chave_da_linha(d, i),
         NF |-> IF bool(par.nf) THEN par.nf ELSE NA,
         CNPJ |-> IF bool(par.cnpj) THEN par.cnpj ELSE NA,
         CNPJ_Formatado |-> IF bool(par.cnpj)
                            THEN PyStr(formatar_cnpj(par.cnpj.v)) ELSE NA,
         Volume_Atual |-> IF iv # None THEN PyInt(iv.vol_atual) ELSE None,
         Total_Volumes |-> IF iv # None THEN PyInt(iv.total_vol) ELSE None,
         Base_NF |-> IF iv # None THEN PyStr(iv.base) ELSE None,
         Bipado_em |-> get(d, i, "bipado_em", None),
         Removido_em |-> get(d, i, "removido_em", None),
         Inclusao_Manual |-> PyBool(inclusao_manual(d, i))]

\* the body of the loop of enriquecer_dados for row i: the exception it
\* raises, or the dict it appends
linha_enriquecida(d, i) ==
    IF erro_da_linha(d, i) # None THEN erro_da_linha(d, i)
    ELSE registro_enriquecido(d, i)

\* enriquecer_dados(df): df itself when empty, the exception of the first
\* row whose body raises, or the DataFrame of the enriched records
enriquecer_dados(d) ==
    IF empty(d) THEN d
    ELSE IF \E i \in 1..Len(d.linhas) : erro_da_linha(d, i) # None
         THEN erro_da_linha(d, CHOOSE i \in 1..Len(d.linhas) :
                                  /\ erro_da_linha(d, i) # None
                                  /\ \A j \in 1..(i - 1) : erro_da_linha(d, j) = None)
         ELSE DataFrame([i \in 1..Len(d.linhas) |-> linha_enriquecida(d, i)],
                        ColunasEnriquecidas)

----------------------------------------------------------------------------
(* carregar_dados_supabase: one iteration of the pagination loop *)

\* page_size: 1000 in the source, scaled down so that full pages are
\* enumerable
page_size == 2

\* the safety cap on offset: 1000000 in the source, scaled down with
\* page_size; a multiple of it, as in the source, so that a request starts
\* exactly at the cap
max_offset == 4

\* the characters of the names of the columns
Caracteres ==
    [OF |-> <<"O", "F">>,
     CHAVE_NF |-> <<"C", "H", "A", "V", "E", "_", "N", "F">>,
     INCLUSAO_MANUAL |-> <<"I", "N", "C", "L", "U", "S", "A", "O", "_",
                           "M", "A", "N", "U", "A", "L">>,
     bipado_em |-> <<"b", "i", "p", "a", "d", "o", "_", "e", "m">>,
     removido_em |-> <<"r", "e", "m", "o", "v", "i", "d", "o", "_", "e", "m">>]

\* str(n) for an integer n
RECURSIVE str_int(_)
str_int(n) ==
    IF n < 0 THEN <<"-">> \o str_int(0 - n)
    ELSE IF n < 10 THEN <<Decimais[n + 1]>>
    ELSE str_int(n \div 10) \o <<Decimais[(n % 10) + 1]>>

\* repr(x) for a value of a row: a string (of printable characters, without
\* quote or backslash) in single quotes, an int in decimal, True, False, None
repr(x) ==
    CASE x.t = "str"   -> <<"'">> \o x.v \o <<"'">>
      [] x.t = "int"   -> str_int(x.v)
      [] x.t = "float" -> str_int(x.v) \o <<".", "0">>
      [] x.t = "bool"  -> IF x.v THEN <<"T", "r", "u", "e">>
                          ELSE <<"F", "a", "l", "s", "e">>
      [] x.t = "None"  -> <<"N", "o", "n", "e">>

\* the 'name': value items of str(registro) for the keys campos[n..], the
\* keys the dict holds, each but the first after a comma and a blank
RECURSIVE itens_str(_, _, _)
itens_str(registro, n, primeiro) ==
    IF n > Len(Campos) THEN <<>>
    ELSE IF registro[Campos[n]] = Ausente THEN itens_str(registro, n + 1, primeiro)
    ELSE (IF primeiro THEN <<>> ELSE <<",", " ">>)
         \o <<"'">> \o Caracteres[Campos[n]] \o <<"'", ":", " ">>
         \o repr(registro[Campos[n]])
         \o itens_str(registro, n + 1, FALSE)

\* str(registro) for a dict whose keys come in the order of Campos
str(registro) == <<"{">> \o itens_str(registro, 1, TRUE) \o <<"}">>

\* chave_id = registro.get("CHAVE_NF") or str(registro)
chave_id(registro) ==
    IF registro["CHAVE_NF"] # Ausente /\ bool(registro["CHAVE_NF"])
    THEN registro["CHAVE_NF"]
    ELSE PyStr(str(registro))

\* the value a set holds for x: True equals 1 and 1.0 equals 1, with the
\* same hash, so a set holds one of them
elemento(x) ==
    CASE x.t = "bool"  -> PyInt(IF x.v THEN 1 ELSE 0)
      [] x.t = "float" -> PyInt(x.v)
      [] OTHER         -> x

\* seen_keys after the duplicate scan of a page
seen_keys_apos(vistos, pagina) ==
    vistos \cup {elemento(chave_id(pagina[i])) : i \in 1..Len(pagina)}

\* extend that drops the rows whose key the accumulated rows already hold
extend_sem_duplicatas(dados, pagina) ==
    dados \o SelectSeq(pagina,
                       LAMBDA r : \A i \in 1..Len(dados) : chave_id(dados[i]) # chave_id(r))

\* all_data.extend(resp.data)
extend(dados, pagina) == dados \o pagina

\* only an empty page taken for the last one
ultima_pagina_so_vazia(pagina) == Len(pagina) = 0

\* len(resp.data) < page_size: the last page
ultima_pagina(pagina) == Len(pagina) < page_size

\* the cap tested one page late
limite_atingido_tardio(o) == o > max_offset + page_size

\* offset > 1000000: the safety cap
limite_atingido(o) == o > max_offset

\* what the function returns once the loop has ended (lines 153-159)
retorno(dados) == IF Len(dados) = 0 THEN DataFrameVazio ELSE DataFrame(dados, Campos)

----------------------------------------------------------------------------
(* The rows the backend serves *)

Nove == <<"1", "2", "3", "4", "5", "6", "7", "8", "9">>

Catorze == <<"1", "2", "3", "4", "5", "6", "7", "8", "9", "0", "1", "2", "3", "4">>

\* a well-formed 48-character key: volume 1 of 2
ChaveBoa == Nove \o Rep("0", 3) \o Catorze \o Rep("0", 16) \o <<"0", "0", "1", "0", "0", "2">>

Linha(of, k, im, rem) ==
    [OF |-> PyInt(of), CHAVE_NF |-> k, INCLUSAO_MANUAL |-> im,
     bipado_em |-> PyStr(<<"t", "1">>), removido_em |-> rem]

\* two rows that share a key, and a row whose key is null
LinhasBackend ==
    {Linha(1, PyStr(ChaveBoa), PyBool(TRUE), None),
     Linha(2, PyStr(ChaveBoa), PyBool(FALSE), PyStr(<<"t", "2">>)),
     Linha(3, None, PyBool(FALSE), None)}

\* the non-empty lists a page can hold: the backend may return fewer rows
\* than asked, exactly page_size, or (misbehaving) one more
Paginas == UNION {[1..n -> LinhasBackend] : n \in 1..(page_size + 1)}

----------------------------------------------------------------------------
(* main() *)

Init ==
    /\ pc = "inicio"
    /\ config_ok \in BOOLEAN
    /\ offset = 0 /\ all_data = <<>> /\ total_loaded = 0 /\ seen_keys = {}
    /\ ordenado = FALSE
    /\ requisicoes = <<>> /\ respostas = <<>>
    /\ df = Pendente /\ df_enriquecido = Pendente
    /\ csv = Ausente /\ exit_status = Pendente /\ mensagem = "nenhuma"
    /\ chave = <<>> /\ info_vol = Pendente /\ nf_cnpj = Pendente /\ cnpj_fmt = Pendente

\* exit(1) after printing `msg`
Sair1(msg) == pc' = "fim" /\ exit_status' = PyInt(1) /\ mensagem' = msg

\* lines 224-226
ValidarConfig ==
    /\ pc = "inicio"
    /\ IF config_ok
       THEN pc' = "conectar" /\ UNCHANGED <<exit_status, mensagem>>
       ELSE Sair1("config")
    /\ UNCHANGED <<config_ok, offset, all_data, total_loaded, seen_keys, ordenado,
                   requisicoes, respostas, df, df_enriquecido, csv>>
    /\ UNCHANGED varsChave

\* lines 229-235: create_client returns or raises
Conectar ==
    /\ pc = "conectar"
    /\ \E ok \in BOOLEAN :
          IF ok THEN pc' = "buscar" /\ UNCHANGED <<exit_status, mensagem>>
          ELSE Sair1("conexao")
    /\ UNCHANGED <<config_ok, offset, all_data, total_loaded, seen_keys, ordenado,
                   requisicoes, respostas, df, df_enriquecido, csv>>
    /\ UNCHANGED varsChave

\* the request of one iteration (lines 77-103): main() passes
\* incluir_removidas=True, so no filter is added; ordering is best effort
\* (order() accepted or not); the range starts at offset; `resp` is what
\* execute() gave
Requisicao(resp) ==
    /\ pc = "buscar"
    /\ ordenado' \in BOOLEAN
    /\ requisicoes' = Append(requisicoes, offset)
    /\ respostas' = Append(respostas, resp)

\* the loop ended by break: lines 153-159, back in main() with the DataFrame
Break(dados) == pc' = "retornou" /\ df' = retorno(dados)

\* the exception swallowed: the loop left as by break, the partial rows returned
Levanta_engolida == Break(all_data) /\ UNCHANGED <<exit_status, mensagem>>

\* an exception leaves carregar_dados_supabase (re-raised at 160-168, as it
\* is or under a table-not-found message) and is caught by main() at 252-258
Levanta == df' = Erro("Exception") /\ Sair1("carga")

\* the request raises
PaginaExcecao ==
    /\ Requisicao(Erro("Exception"))
    /\ Levanta
    /\ UNCHANGED <<config_ok, offset, all_data, total_loaded, seen_keys,
                   df_enriquecido, csv>>
    /\ UNCHANGED varsChave

\* lines 106-110: the response has no data
PaginaSemDados ==
    /\ Requisicao([t |-> "sem_data"])
    /\ IF offset = 0
       THEN pc' = "retornou" /\ df' = DataFrameVazio
       ELSE Break(all_data)
    /\ UNCHANGED <<config_ok, offset, all_data, total_loaded, seen_keys,
                   df_enriquecido, csv, exit_status, mensagem>>
    /\ UNCHANGED varsChave

\* lines 113-116: the response is the API-discovery document
PaginaSwagger ==
    /\ Requisicao([t |-> "swagger"])
    /\ IF offset = 0
       THEN Levanta
       ELSE Break(all_data) /\ UNCHANGED <<exit_status, mensagem>>
    /\ UNCHANGED <<config_ok, offset, all_data, total_loaded, seen_keys,
                   df_enriquecido, csv>>
    /\ UNCHANGED varsChave

\* lines 119-121: the response is an empty list
PaginaVazia ==
    /\ Requisicao([t |-> "lista", data |-> <<>>])
    /\ Break(all_data)
    /\ UNCHANGED <<config_ok, offset, all_data, total_loaded, seen_keys,
                   df_enriquecido, csv, exit_status, mensagem>>
    /\ UNCHANGED varsChave

\* lines 124-151: the response is a non-empty list of rows
PaginaDados ==
    \E pagina \in Paginas :
        /\ Requisicao([t |-> "lista", data |-> pagina])
        /\ seen_keys' = seen_keys_apos(seen_keys, pagina)
        /\ all_data' = extend(all_data, pagina)
        /\ total_loaded' = total_loaded + Len(pagina)
        /\ IF ultima_pagina(pagina)
           THEN UNCHANGED offset /\ Break(all_data')
           ELSE /\ offset' = offset + page_size
                /\ IF limite_atingido(offset')
                   THEN Break(all_data')
                   ELSE UNCHANGED <<pc, df>>
        /\ UNCHANGED <<config_ok, df_enriquecido, csv, exit_status, mensagem>>
        /\ UNCHANGED varsChave

\* lines 243-248: nothing was loaded; the empty CSV is written (or to_csv
\* raises, which the handler at 252-258 turns into exit 1)
CsvVazio ==
    /\ pc = "retornou" /\ empty(df)
    /\ \E ok \in BOOLEAN :
          IF ok
          THEN /\ csv' = [t |-> "csv", encoding |-> "utf-8", colunas |-> <<>>, linhas |-> <<>>]
               /\ pc' = "fim" /\ exit_status' = PyInt(0) /\ UNCHANGED mensagem
          ELSE Sair1("carga") /\ UNCHANGED csv
    /\ UNCHANGED <<config_ok, offset, all_data, total_loaded, seen_keys, ordenado,
                   requisicoes, respostas, df, df_enriquecido>>
    /\ UNCHANGED varsChave

\* lines 250-251: rows were loaded
Carregados ==
    /\ pc = "retornou" /\ ~empty(df)
    /\ pc' = "enriquecer"
    /\ UNCHANGED <<config_ok, offset, all_data, total_loaded, seen_keys, ordenado,
                   requisicoes, respostas, df, df_enriquecido, csv, exit_status, mensagem>>
    /\ UNCHANGED varsChave

\* line 262: enriquecer_dados(df); an exception here is caught by nobody and
\* ends the process with a traceback and status 1
Enriquecer ==
    /\ pc = "enriquecer"
    /\ df_enriquecido' = enriquecer_dados(df)
    /\ IF df_enriquecido'.t = "raise"
       THEN Sair1("traceback")
       ELSE pc' = "salvar" /\ UNCHANGED <<exit_status, mensagem>>
    /\ UNCHANGED <<config_ok, offset, all_data, total_loaded, seen_keys, ordenado,
                   requisicoes, respostas, df, csv>>
    /\ UNCHANGED varsChave

\* lines 267-278: the enriched CSV is written, or to_csv raises
SalvarCsv ==
    /\ pc = "salvar"
    /\ \E ok \in BOOLEAN :
          IF ok
          THEN /\ csv' = [t |-> "csv", encoding |-> "utf-8-sig",
                          colunas |-> df_enriquecido.colunas,
                          linhas |-> df_enriquecido.linhas]
               /\ pc' = "fim" /\ exit_status' = PyInt(0) /\ UNCHANGED mensagem
          ELSE Sair1("salvar") /\ UNCHANGED csv
    /\ UNCHANGED <<config_ok, offset, all_data, total_loaded, seen_keys, ordenado,
                   requisicoes, respostas, df, df_enriquecido>>
    /\ UNCHANGED varsChave

Next ==
    \/ ValidarConfig
    \/ Conectar
    \/ PaginaExcecao
    \/ PaginaSemDados
    \/ PaginaSwagger
    \/ PaginaVazia
    \/ PaginaDados
    \/ CsvVazio
    \/ Carregados
    \/ Enriquecer
    \/ SalvarCsv

Spec == Init /\ [][Next]_vars

----------------------------------------------------------------------------
(* Claims about the fetch and the run *)

\* the responses that carried a list of rows, concatenated in request order
RECURSIVE Concatenadas(_)
Concatenadas(rs) ==
    IF Len(rs) = 0 THEN <<>>
    ELSE Concatenadas(SubSeq(rs, 1, Len(rs) - 1))
         \o (IF rs[Len(rs)].t = "lista" THEN rs[Len(rs)].data ELSE <<>>)

\* carregar_dados_supabase has returned a DataFrame to main()
Retornou == df # Pendente /\ df.t = "DataFrame"

\* carregar_dados_supabase has raised
FalhouCarga == df # Pendente /\ df.t = "raise"

\* to_csv raised: the run ended with an error message after a DataFrame was
\* returned and (if it ran) enrichment completed
EscritaFalhou == pc = "fim" /\ Retornou /\ mensagem \in {"carga", "salvar"}

RespostaCurta(r) == r.t = "lista" /\ Len(r.data) < page_size

RespostaSemLinhas(r) == r.t \in {"sem_data", "swagger"} \/ (r.t = "lista" /\ Len(r.data) = 0)

\* C1: whatever the backend answers, the pagination loop ends, and no page
\* request starts at an offset greater than the cap: the j-th request starts
\* at (j-1) * page_size, which never exceeds max_offset, so the loop issues at
\* most max_offset \div page_size + 1 requests before it ends.
C1_TerminaDentroDoLimite ==
    /\ \A j \in 1..Len(requisicoes) :
          /\ requisicoes[j] <= max_offset
          /\ requisicoes[j] = (j - 1) * page_size
    /\ Len(requisicoes) <= max_offset \div page_size + 1
    /\ pc = "buscar" => offset = Len(requisicoes) * page_size /\ offset <= max_offset

\* C1 witness: the loop ended on the cap, after a request at offset
\* max_offset that was answered, like all before it, with a full page
C1_Witness ==
    /\ pc = "retornou"
    /\ Len(requisicoes) > 1
    /\ requisicoes[Len(requisicoes)] + page_size > max_offset
    /\ \A j \in 1..Len(respostas) :
          respostas[j].t = "lista" /\ Len(respostas[j].data) = page_size

\* C2: a page with fewer than page_size rows is the last request: the loop
\* has ended, the rows returned end with the rows of that page, and a short
\* first page means exactly one request.
C2_PaginaCurtaEncerra ==
    \A j \in 1..Len(respostas) :
        RespostaCurta(respostas[j]) =>
            /\ j = Len(respostas)
            /\ Len(requisicoes) = j
            /\ pc # "buscar"
            /\ Retornou
            /\ Len(df.linhas) >= Len(respostas[j].data)
            /\ SubSeq(df.linhas, Len(df.linhas) - Len(respostas[j].data) + 1,
                      Len(df.linhas)) = respostas[j].data

\* C2 witness: a short, non-empty second page ended the fetch
C2_Witness ==
    /\ Len(respostas) = 2
    /\ RespostaCurta(respostas[2])
    /\ Len(respostas[2].data) > 0
    /\ Retornou

\* C3: the rows returned are every received page, concatenated in request
\* order: as many rows as the pages held, never fewer than the distinct keys
\* seen, duplicates included.
C3_DeduplicacaoSoConta ==
    /\ all_data = Concatenadas(respostas)
    /\ total_loaded = Len(all_data)
    /\ Cardinality(seen_keys) <= Len(all_data)
    /\ Retornou =>
          /\ df.linhas = Concatenadas(respostas)
          /\ Len(df.linhas) >= Cardinality(seen_keys)

\* C3 witness: two pages were returned whose rows repeat a key
C3_Witness ==
    /\ Retornou
    /\ Len(respostas) >= 2
    /\ respostas[1].t = "lista" /\ respostas[2].t = "lista"
    /\ Len(respostas[2].data) > 0
    /\ Cardinality(seen_keys) < Len(df.linhas)

\* C4: when a request raises, on any page, or the first page is the
\* API-discovery document, that request is the last one (no retry), the run
\* has ended with status 1, and the CSV file was not written.
C4_FalhaDeCarga ==
    /\ \A j \in 1..Len(respostas) :
          (respostas[j].t = "raise" \/ (respostas[j].t = "swagger" /\ j = 1)) =>
              /\ j = Len(respostas)
              /\ FalhouCarga
    /\ FalhouCarga =>
          /\ pc = "fim"
          /\ exit_status = PyInt(1)
          /\ csv = Ausente
          /\ df_enriquecido = Pendente

\* C4 witness: a request raised after rows had been accumulated
C4_Witness ==
    /\ FalhouCarga
    /\ Len(all_data) > 0
    /\ respostas[Len(respostas)].t = "raise"

\* the file pd.DataFrame().to_csv(CSV_FILE, index=False) writes
CsvSemCabecalho == [t |-> "csv", encoding |-> "utf-8", colunas |-> <<>>, linhas |-> <<>>]

\* C5: with configuration present, a fetch that yields no rows ends the run
\* (the write of the file itself not raising) with the empty, header-less CSV
\* written, enrichment never called, and status 0.
C5_ResultadoVazio ==
    (/\ config_ok
     /\ pc = "fim"
     /\ Retornou
     /\ Len(respostas) = 1
     /\ RespostaSemLinhas(respostas[1])
     /\ respostas[1].t # "swagger"
     /\ ~EscritaFalhou) =>
        /\ csv = CsvSemCabecalho
        /\ df_enriquecido = Pendente
        /\ exit_status = PyInt(0)

\* C5 witness: the first response had no data and the run ended
C5_Witness ==
    /\ pc = "fim"
    /\ Len(respostas) = 1
    /\ respostas[1].t = "sem_data"
    /\ exit_status = PyInt(0)

\* C10: a later page without rows (no data, API-discovery document, empty
\* list) raises nothing: the rows accumulated so far are returned, and the
\* run (the write of the file itself not raising) ends with them written to
\* the CSV and status 0.
C10_PaginaPosteriorSemLinhas ==
    \A j \in 2..Len(respostas) :
        RespostaSemLinhas(respostas[j]) =>
            /\ Retornou
            /\ df.linhas = all_data
            /\ (pc = "fim" /\ ~EscritaFalhou) =>
                  /\ exit_status = PyInt(0)
                  /\ csv # Ausente
                  /\ Len(csv.linhas) = Len(all_data)

----------------------------------------------------------------------------
(* SpecEnriquecer: main() from line 260 on, over rows of every kind *)

\* the most rows a fetched table holds
MaxLinhas == 2

\* 48-character keys: non-digit in [0,9), in [12,26), in the last 6; another
\* well-formed one (volume 999 of 123)
ChaveNFRuim == Rep("1", 8) \o <<"X">> \o Rep("0", 3) \o Catorze \o Rep("0", 16)
               \o <<"0", "0", "1", "0", "0", "2">>

ChaveCNPJRuim == Nove \o Rep("0", 3) \o <<"X">> \o Rep("1", 13) \o Rep("0", 16)
                 \o <<"0", "0", "1", "0", "0", "2">>

ChaveVolRuim == Nove \o Rep("0", 3) \o Catorze \o Rep("0", 16)
                \o <<"0", "1", "X", "0", "0", "2">>

ChaveBoa2 == Rep("0", 9) \o Rep("X", 3) \o Catorze \o Rep("A", 16)
             \o <<"9", "9", "9", "1", "2", "3">>

\* 48-character keys with digits that are not ASCII: ending in '00100' and
\* SUPERSCRIPT TWO; SUPERSCRIPT TWO closing [0,9); Arabic-Indic ones in
\* [0,9), twos in [12,26) and 123456 in the last 6
ChaveVolSobrescrito == Nove \o Rep("0", 3) \o Catorze \o Rep("0", 16)
                       \o <<"0", "0", "1", "0", "0", "U+00B2">>

ChaveNFSobrescrito == Rep("1", 8) \o <<"U+00B2">> \o Rep("0", 3) \o Catorze
                      \o Rep("0", 16) \o <<"0", "0", "1", "0", "0", "2">>

\* ending in '00100' and SUPERSCRIPT THREE; ending in the circled digits one
\* to six; ending in the Devanagari digits 123456; Devanagari ones in [0,9)
\* and fullwidth twos in [12,26)
ChaveVolSobrescrito3 == Nove \o Rep("0", 3) \o Catorze \o Rep("0", 16)
                        \o <<"0", "0", "1", "0", "0", "U+00B3">>

ChaveVolCirculado == Nove \o Rep("0", 3) \o Catorze \o Rep("0", 16)
                     \o <<"U+2460", "U+2461", "U+2462", "U+2463", "U+2464", "U+2465">>

ChaveVolDevanagari == Nove \o Rep("0", 3) \o Catorze \o Rep("0", 16)
                      \o <<"U+0967", "U+0968", "U+0969", "U+096A", "U+096B", "U+096C">>

ChaveDevanagariLarga == Rep("U+0967", 9) \o Rep("0", 3) \o Rep("U+FF12", 14)
                        \o Rep("0", 16) \o <<"0", "0", "1", "0", "0", "2">>

ChaveArabica == Rep("U+0661", 9) \o Rep("0", 3) \o Rep("U+0662", 14) \o Rep("0", 16)
                \o <<"U+0661", "U+0662", "U+0663", "U+0664", "U+0665", "U+0666">>

\* the values CHAVE_NF takes: strings of 48, 27, 5, 0 and 49 characters,
\* null, and a key missing from the dict
ValoresChave ==
    {PyStr(ChaveBoa), PyStr(ChaveBoa2), PyStr(ChaveNFRuim), PyStr(ChaveCNPJRuim),
     PyStr(ChaveVolRuim),
     PyStr(ChaveVolSobrescrito), PyStr(ChaveNFSobrescrito), PyStr(ChaveArabica),
     PyStr(ChaveVolSobrescrito3), PyStr(ChaveVolCirculado), PyStr(ChaveVolDevanagari),
     PyStr(ChaveDevanagariLarga),
     PyStr(Rep("L", 21) \o <<"0", "0", "1", "0", "0", "2">>),
     PyStr(Rep("1", 27)),
     PyStr(<<"1", "2", "3", "4", "5">>),
     PyStr(<<>>),
     PyStr(Rep("1", 49)),
     None,
     Ausente}

\* the values INCLUSAO_MANUAL takes
ValoresInclusao ==
    {PyBool(TRUE), PyBool(FALSE), None, Ausente, PyInt(1), PyInt(0),
     PyStr(<<"f", "a", "l", "s", "e">>), PyStr(<<>>)}

LinhasEnriquecer ==
    {Linha(1, k, PyBool(TRUE), None) : k \in ValoresChave}
    \cup {Linha(2, PyStr(ChaveBoa), im, PyStr(<<"t", "2">>)) : im \in ValoresInclusao}

\* the requests that load `dados` from a backend serving full pages and then
\* the rest: one more than the full pages
NumRequisicoes(dados) ==
    IF Len(dados) \div page_size > max_offset \div page_size
    THEN max_offset \div page_size + 1
    ELSE Len(dados) \div page_size + 1

\* offset when the loop ends: line 146 is not reached on the last page, and
\* is reached before the cap ends the loop
offset_final(dados) ==
    IF Len(dados) \div page_size > max_offset \div page_size
    THEN (max_offset \div page_size + 1) * page_size
    ELSE (Len(dados) \div page_size) * page_size

PaginaDe(dados, j) ==
    SubSeq(dados, (j - 1) * page_size + 1,
           IF j * page_size < Len(dados) THEN j * page_size ELSE Len(dados))

\* main() at line 260, the table loaded
InitEnriquecer ==
    /\ all_data \in UNION {[1..n -> LinhasEnriquecer] : n \in 1..MaxLinhas}
    /\ pc = "enriquecer"
    /\ config_ok = TRUE
    /\ offset = offset_final(all_data)
    /\ total_loaded = Len(all_data)
    /\ seen_keys = seen_keys_apos({}, all_data)
    /\ ordenado = TRUE
    /\ requisicoes = [j \in 1..NumRequisicoes(all_data) |-> (j - 1) * page_size]
    /\ respostas = [j \in 1..NumRequisicoes(all_data) |->
                       [t |-> "lista", data |-> PaginaDe(all_data, j)]]
    /\ df = retorno(all_data)
    /\ df_enriquecido = Pendente
    /\ csv = Ausente /\ exit_status = Pendente /\ mensagem = "nenhuma"
    /\ chave = <<>> /\ info_vol = Pendente /\ nf_cnpj = Pendente /\ cnpj_fmt = Pendente

NextEnriquecer == Enriquecer \/ SalvarCsv

SpecEnriquecer == InitEnriquecer /\ [][NextEnriquecer]_vars

----------------------------------------------------------------------------
(* Claims about enrichment *)

\* enriquecer_dados was called
Enriqueceu == df_enriquecido # Pendente

\* enriquecer_dados returned its DataFrame
EnriquecimentoCompleto == Enriqueceu /\ df_enriquecido.t = "DataFrame"

\* a digit: a character of the Unicode digit classes
Digito(c) == c \in ConjuntoDecimais \cup DigitosNaoDecimais

\* a decimal digit: a digit with a value 0..9
DigitoDecimal(c) == c \in ConjuntoDecimais

TodosDigitos(s, a, b) == \A n \in a..b : Digito(s[n])

TodosDecimais(s, a, b) == \A n \in a..b : DigitoDecimal(s[n])

\* the 48-character string keys with digits in [0,9), in [12,26) and in the
\* last 6 characters
ChaveBemFormada(x) ==
    /\ x.t = "str" /\ Len(x.v) = 48
    /\ TodosDigitos(x.v, 1, 9) /\ TodosDigitos(x.v, 13, 26) /\ TodosDigitos(x.v, 43, 48)

\* the well-formed keys whose last 6 characters write two numbers
ChaveParseavel(x) == ChaveBemFormada(x) /\ TodosDecimais(x.v, 43, 48)

\* every row of the table has a string for its key
SoChavesStr == \A i \in 1..Len(all_data) : all_data[i]["CHAVE_NF"].t = "str"

\* NN.NNN.NNN/NNNN-NN
Renderizado(c) ==
    <<c[1], c[2], ".", c[3], c[4], c[5], ".", c[6], c[7], c[8], "/",
      c[9], c[10], c[11], c[12], "-", c[13], c[14]>>

\* a cell holding no value
CelulaVazia(x) == x.t \in {"None", "NaN"}

\* a cell holding the number n
CelulaNumero(x, n) == x.t \in {"int", "float"} /\ x.v = n

TemOnzeColunas(r) ==
    DOMAIN r = {ColunasEnriquecidas[n] : n \in 1..11} /\ \A c \in DOMAIN r : r[c] # Ausente

\* C6: Inclusao_Manual is true exactly for the rows whose INCLUSAO_MANUAL is
\* the boolean true, and false for every other source value.
C6_InclusaoEstrita ==
    EnriquecimentoCompleto =>
        \A i \in 1..Len(all_data) :
            df_enriquecido.linhas[i]["Inclusao_Manual"]
                = PyBool(all_data[i]["INCLUSAO_MANUAL"] = PyBool(TRUE))

\* C7: a row whose CHAVE_NF is no parseable 48-character key (a label of 27
\* characters, another length, a 48-character string that does not parse,
\* null, absent) never stops enrichment: once enriquecer_dados has been
\* called it has returned, and the record of that row has the eleven columns,
\* with "N/A" and empty cells for what was not parsed.
C7_ChaveMalformadaNaoFatal ==
    Enriqueceu =>
        \A i \in 1..Len(all_data) :
            ~ChaveParseavel(all_data[i]["CHAVE_NF"]) =>
                /\ EnriquecimentoCompleto
                /\ TemOnzeColunas(df_enriquecido.linhas[i])
                /\ LET k == all_data[i]["CHAVE_NF"]
                       r == df_enriquecido.linhas[i]
                       nfOk == /\ k.t = "str" /\ Len(k.v) = 48
                               /\ TodosDigitos(k.v, 1, 9) /\ TodosDigitos(k.v, 13, 26)
                       volOk == k.t = "str" /\ Len(k.v) = 48 /\ TodosDecimais(k.v, 43, 48)
                   IN  /\ ~nfOk => r["NF"] = NA /\ r["CNPJ"] = NA /\ r["CNPJ_Formatado"] = NA
                       /\ ~volOk => /\ CelulaVazia(r["Volume_Atual"])
                                    /\ CelulaVazia(r["Total_Volumes"])
                                    /\ CelulaVazia(r["Base_NF"])

\* C8: for a table whose keys are all strings, every row with a well-formed
\* 48-character key gets a record, with NF = key[0:9], CNPJ = key[12:26],
\* its NN.NNN.NNN/NNNN-NN rendering, the numbers of key[42:45] and
\* key[45:48], and Base_NF = key[0:42]; a 48-character key with a non-digit
\* in [0,9) or in [12,26) has NF and CNPJ both "N/A".
C8_ChaveBemFormada ==
    (Enriqueceu /\ SoChavesStr) =>
        \A i \in 1..Len(all_data) :
            LET k == all_data[i]["CHAVE_NF"]
                r == df_enriquecido.linhas[i]
            IN  /\ ChaveBemFormada(k) =>
                      /\ EnriquecimentoCompleto
                      /\ r["NF"] = PyStr(SubSeq(k.v, 1, 9))
                      /\ r["CNPJ"] = PyStr(SubSeq(k.v, 13, 26))
                      /\ r["CNPJ_Formatado"] = PyStr(Renderizado(SubSeq(k.v, 13, 26)))
                      /\ CelulaNumero(r["Volume_Atual"], ValorEscrito(SubSeq(k.v, 43, 45)))
                      /\ CelulaNumero(r["Total_Volumes"], ValorEscrito(SubSeq(k.v, 46, 48)))
                      /\ r["Base_NF"] = PyStr(SubSeq(k.v, 1, 42))
                /\ (/\ EnriquecimentoCompleto
                    /\ Len(k.v) = 48
                    /\ ~(TodosDigitos(k.v, 1, 9) /\ TodosDigitos(k.v, 13, 26))) =>
                      r["NF"] = NA /\ r["CNPJ"] = NA

----------------------------------------------------------------------------
(* Keys the parsers are applied to *)

\* candidates for chave[0:9]
SegNF == {Nove, Rep("0", 9), Rep("1", 8) \o <<"X">>, Rep("1", 8) \o <<"U+00B2">>,
          Rep("U+0661", 9), Rep("1", 8) \o <<"U+00B3">>, Rep("U+0967", 9)}

\* candidates for chave[9:12]
SegMeio == {Rep("0", 3), Rep("X", 3)}

\* candidates for chave[12:26]
SegCNPJ == {Catorze, <<"X">> \o Rep("1", 13), Rep("U+0662", 14), Rep("U+FF12", 14)}

\* candidates for chave[42:45]
SegVol == {<<"0", "0", "1">>, <<"9", "9", "9">>, <<"0", "1", "X">>, <<"0", "4", "2">>,
           <<"0", "U+00B2", "1">>, <<"U+0661", "U+0662", "U+0663">>,
           <<"U+2460", "U+2461", "U+2462">>, <<"1", "U+0662", "2">>}

\* candidates for chave[45:48]
SegTot == {<<"0", "0", "2">>, <<"0", "0", "0">>, <<"X", "0", "2">>, <<"1", "2", "3">>,
           <<"0", "0", "U+00B2">>, <<"U+0664", "U+0665", "U+0666">>,
           <<"0", "0", "U+00B3">>, <<"U+0969", "3", "U+FF14">>}

Chaves48 ==
    {n \o m \o c \o Rep("0", 16) \o v \o tt :
        n \in SegNF, m \in SegMeio, c \in SegCNPJ, v \in SegVol, tt \in SegTot}

\* keys of other lengths: empty, 5, 6, 7, 25, 26, 27 (labels), 47 and 49
ChavesOutras ==
    {<<>>,
     <<"1", "2", "3", "4", "5">>,
     <<"1", "2", "3", "4", "5", "U+00B2">>,
     <<"1", "2", "3", "4", "5", "U+00B3">>,
     <<"U+0967", "U+0968", "U+0969", "U+096A", "U+096B", "U+096C">>,
     <<"U+FF11", "U+FF12", "U+FF13", "U+FF14", "U+FF15", "U+FF16">>,
     <<"U+06F1", "U+06F2", "U+06F3", "U+1D7CF", "U+1D7D0", "U+1D7D1">>,
     <<"U+0661", "U+0662", "U+0663", "U+0664", "U+0665", "U+0666">>,
     <<"0", "0", "1", "0", "0", "2">>,
     <<"X", "0", "1", "0", "0", "2">>,
     <<"X", "0", "0", "1", "0", "0", "2">>,
     Rep("1", 25),
     Rep("1", 26),
     Rep("1", 25) \o <<"X">>,
     Rep("L", 21) \o <<"0", "0", "1", "0", "0", "2">>,
     Rep("L", 27),
     Rep("1", 27),
     Rep("1", 47),
     Rep("1", 49)}

Chaves == Chaves48 \cup ChavesOutras

----------------------------------------------------------------------------
(* SpecChave: each parser applied to one key *)

MainParado ==
    /\ pc = "parado" /\ config_ok = TRUE /\ offset = 0 /\ all_data = <<>>
    /\ total_loaded = 0 /\ seen_keys = {} /\ ordenado = FALSE
    /\ requisicoes = <<>> /\ respostas = <<>> /\ df = Pendente
    /\ df_enriquecido = Pendente /\ csv = Ausente /\ exit_status = Pendente
    /\ mensagem = "nenhuma"

InitChave ==
    /\ chave \in Chaves
    /\ info_vol = Pendente
    /\ nf_cnpj = Pendente
    /\ cnpj_fmt = Pendente
    /\ MainParado

ExtrairInfoVolume ==
    /\ info_vol = Pendente
    /\ info_vol' = extrair_info_volume(chave)
    /\ UNCHANGED <<chave, nf_cnpj, cnpj_fmt>>
    /\ UNCHANGED varsMain

ExtrairNfCnpj ==
    /\ nf_cnpj = Pendente
    /\ nf_cnpj' = extrair_nf_cnpj(chave)
    /\ UNCHANGED <<chave, info_vol, cnpj_fmt>>
    /\ UNCHANGED varsMain

\* formatar_cnpj applied to the key's candidate CNPJ, chave[12:26]
FormatarCnpj ==
    /\ cnpj_fmt = Pendente
    /\ cnpj_fmt' = PyStr(formatar_cnpj(Fatia(chave, 12, 26)))
    /\ UNCHANGED <<chave, info_vol, nf_cnpj>>
    /\ UNCHANGED varsMain

NextChave == ExtrairInfoVolume \/ ExtrairNfCnpj \/ FormatarCnpj

SpecChave == InitChave /\ [][NextChave]_vars

----------------------------------------------------------------------------
(* Claims about the key parsers *)

\* the last six characters of the key, read off the key directly
UltimosSeis == SubSeq(chave, Len(chave) - 5, Len(chave))

SoDigitos(s) == \A i \in 1..Len(s) : Digito(s[i])

\* C9: extrair_info_volume returns the tuple or None, and the tuple exactly
\* when the key has at least 6 characters and its last 6 are all digits; the
\* tuple then has vol_atual * 1000 + total_vol equal to the integer the last 6
\* characters write, both numbers within 0..999, and base equal to the key
\* without its last 6 characters; a key shorter than 6 characters gives None.
C9_InfoVolume ==
    info_vol # Pendente =>
        /\ info_vol.t \in {"tuple", "None"}
        /\ (info_vol.t = "tuple") <=> (Len(chave) >= 6 /\ SoDigitos(UltimosSeis))
        /\ info_vol.t = "tuple" =>
              /\ info_vol.vol_atual * 1000 + info_vol.total_vol = ValorEscrito(UltimosSeis)
              /\ info_vol.vol_atual \in 0..999
              /\ info_vol.total_vol \in 0..999
              /\ info_vol.base \o UltimosSeis = chave
        /\ Len(chave) < 6 => info_vol = None

====
